---- MODULE Spec2Model ----
(***************************************************************************)
(* State-machine model of the like bot in src/src/bot.js: main(),          *)
(* loadProcessed(), saveProcessed(), robustGoto(), collectTweetIds(),      *)
(* likeTweetById() and processUrl().  The browser page, the file system    *)
(* and the site are the environment: every outcome they can produce is a   *)
(* nondeterministic choice of the action that awaits it.                   *)
(***************************************************************************)
EXTENDS Integers, Sequences, FiniteSets, TLC

(* ------------------------------ bounds --------------------------------- *)
MaxFeed == 2            \* tweets a page can ever render (ids 1..MaxFeed)
MaxCap == 2             \* largest configured TWEETS_TO_LIKE and DAILY_CAP
MaxRows == 2            \* URLs processed in one run (rows of input.csv, ROWS_PER_LAUNCH)
MaxUrls == 3            \* longest tweetUrls array of processUrl that is followed

MaxDayCount == MaxCap + 1   \* largest dayCount found in processed.json: above every cap

(* -------------------------- program constants -------------------------- *)
(* mutant of MAX_NO_CHANGE: one more unchanged measurement is tolerated *)
NoChangeLimitPlusOne == 3 + 1

maxRetries == 2         \* robustGoto
MAX_NO_CHANGE == 3      \* collectTweetIds
LikeAttempts == 3       \* likeTweetById: for (retry = 0; retry < 3; retry++)
Today == 2              \* new Date().toISOString().split('T')[0]
Yesterday == 1          \* any other date string
NoDate == 0             \* dayStart: '' of the zero-valued ledger

Ids == 1..MaxFeed
Hosts == {"x.com", "twitter.com"}

(* A target URL is <<host, path>>; the path token "x.com" stands for a path *)
(* or query in which the text x.com occurs (https://x.com/search?q=x.com).  *)
Targets == Hosts \X {"user", "x.com"}

(* url.includes('x.com') *)
IncludesX(u) == \E k \in DOMAIN u : u[k] = "x.com"

(* mutant of ReplaceX: replace without the g flag changes the first occurrence only *)
ReplaceFirstX(u) ==
    LET first == CHOOSE k \in DOMAIN u : u[k] = "x.com" /\ \A j \in 1..(k - 1) : u[j] # "x.com"
    IN  IF IncludesX(u) THEN [u EXCEPT ![first] = "twitter.com"] ELSE u

(* url.replace(/x\.com/g, 'twitter.com'): every occurrence is replaced *)
ReplaceX(u) == [k \in DOMAIN u |-> IF u[k] = "x.com" THEN "twitter.com" ELSE u[k]]

(* href.split('?')[0] of a status link: https://x.com/<user>/status/<id> *)
StatusUrl(id) == <<"x.com/user/status", id>>

(* url.split('/status/')[1]?.split('?')[0] *)
StatusId(u) == u[2]

Range(s) == {s[k] : k \in DOMAIN s}

NoDup(s) == \A a, b \in DOMAIN s : s[a] = s[b] => a = b

RECURSIVE Filter(_, _)
(* Array.prototype.filter with the predicate "member of keep" *)
Filter(s, keep) ==
    IF s = <<>> THEN <<>>
    ELSE IF Head(s) \in keep THEN <<Head(s)>> \o Filter(Tail(s), keep)
    ELSE Filter(Tail(s), keep)

(* ---------------------------- ledger file ------------------------------ *)
(* processed.json as an earlier run left it.  A ledger of another day is drawn with one
   count only: loadProcessed overwrites that count whatever it is. *)
Ledgers ==
    [liked : SUBSET Ids, dayCount : 0..MaxDayCount, dayStart : {Today}]
        \cup [liked : SUBSET Ids, dayCount : {MaxDayCount}, dayStart : {Yesterday}]
AbsentFile == [kind |-> "absent"]
UnreadableFile == [kind |-> "unreadable"]
Files == {AbsentFile, UnreadableFile} \cup Ledgers
NoSave == [kind |-> "none"]
ZeroLedger == [liked |-> {}, dayCount |-> 0, dayStart |-> NoDate]

(* mutant of LoadProcessed: the default ledger is returned as it is, dayStart '' *)
LoadProcessedDefaultAsIs(file) ==
    IF file \in {AbsentFile, UnreadableFile} THEN ZeroLedger
    ELSE IF file.dayStart # Today
    THEN [file EXCEPT !.dayCount = 0, !.dayStart = Today]
    ELSE file

(* mutant of LoadProcessed: a new day updates dayStart but keeps the old dayCount *)
LoadProcessedKeepCount(file) ==
    LET read == IF file \in {AbsentFile, UnreadableFile} THEN ZeroLedger ELSE file
    IN  [read EXCEPT !.dayStart = Today]

(* loadProcessed(): read, then reset dayCount when dayStart is not today *)
LoadProcessed(file) ==
    LET read == IF file \in {AbsentFile, UnreadableFile} THEN ZeroLedger ELSE file
    IN  IF read.dayStart # Today
        THEN [read EXCEPT !.dayCount = 0, !.dayStart = Today]
        ELSE read

VARIABLES
    pc,             \* position of the single thread of control
    storageExists,  \* whether the storageState file exists (fs.pathExists at line 481)
    inputFile,      \* input.csv: "missing" (unreadable), "empty" (no URL in it), "urls"
    exitCode,       \* process exit status, -1 while running
    config,         \* config.TWEETS_TO_LIKE, MAX_SCAN, DAILY_CAP
    disk,           \* content of processed.json
    processed,      \* the in-memory ledger of main()
    loaded,         \* the ledger as loadProcessed() returned it
    lastSave,       \* argument of the last saveProcessed() call, or NoSave
    browser,        \* "none", "open", "closed"
    i,              \* loop index of main()
    url,            \* target of the running robustGoto(), or <<>>
    navLog,         \* URLs handed to page.goto() by the running robustGoto()
    attempt,        \* robustGoto: attempt
    shown,          \* number of tweets rendered in the DOM (ids 1..shown)
    collected,      \* collectTweetIds: tweetUrls (a Set, in insertion order)
    lastHeight,     \* collectTweetIds: lastHeight
    noChangeCount,  \* collectTweetIds: noChangeCount
    stillSteps,     \* consecutive scroll steps of this pass that left the page height as it was
    firstScan,      \* TRUE when the running pass is the one of line 349
    tweetUrls,      \* processUrl: tweetUrls
    likedCount,     \* processUrl: likedCount
    processedUrls,  \* processUrl: processedUrls
    dispatched,     \* the items handed to likeTweetById() for this URL, in call order
    remainingUrls,  \* processUrl: the part of remainingUrls not yet iterated
    statusUrl,      \* the item handed to likeTweetById(), or <<>>
    retry,          \* likeTweetById: retry
    target,         \* what the last attempt found: "none", "unlike", "like"
    result,         \* likeTweetById's result: "none", "ok", "already", "not-found", "threw"
    clicks,         \* real like clicks performed (likeBtn.click at line 293)
    confirmed,      \* whether the unlike marker showed up after the last real click
    detected,       \* what the checks of lines 320-343 and 433 found for this URL: "none", "login",
                    \* "limited", "limited-after-like" (limited at line 433 and after the sleep)
    outcome         \* return value of processUrl(): "none", "success", "failure"

vars == <<pc, storageExists, inputFile, exitCode, config, disk, processed, loaded, lastSave, browser, i,
          url, navLog, attempt, shown, collected, lastHeight, noChangeCount,
          stillSteps, firstScan, tweetUrls, likedCount, processedUrls, dispatched,
          remainingUrls, statusUrl, retry, target, result, clicks, confirmed, detected, outcome>>

inputVars == <<config, storageExists, inputFile>>
mainVars == <<exitCode, disk, processed, loaded, lastSave, browser, i, clicks>>
gotoVars == <<url, navLog, attempt>>
collectVars == <<collected, lastHeight, noChangeCount, stillSteps, firstScan>>
urlVars == <<tweetUrls, likedCount, processedUrls, dispatched, remainingUrls, outcome>>
likeVars == <<statusUrl, retry, target, result, confirmed>>

(* lines 31-34: parseInt of the flags; MAX_SCAN above MaxFeed never cuts a scan short *)
Configs == [TWEETS_TO_LIKE : 1..MaxCap, MAX_SCAN : 1..MaxFeed, DAILY_CAP : 1..MaxCap]

Init ==
    /\ pc = "start"
    /\ exitCode = -1
    /\ config \in Configs
    /\ storageExists \in BOOLEAN
    /\ inputFile \in {"missing", "empty", "urls"}
    /\ disk \in Files
    /\ processed = ZeroLedger
    /\ loaded = ZeroLedger
    /\ lastSave = NoSave
    /\ browser = "none"
    /\ i = 0
    /\ url = <<>>
    /\ navLog = <<>>
    /\ attempt = 0
    /\ shown = 0
    /\ collected = <<>>
    /\ lastHeight = 0
    /\ noChangeCount = 0
    /\ stillSteps = 0
    /\ firstScan = TRUE
    /\ tweetUrls = <<>>
    /\ likedCount = 0
    /\ processedUrls = {}
    /\ dispatched = <<>>
    /\ remainingUrls = <<>>
    /\ statusUrl = <<>>
    /\ retry = 0
    /\ target = "none"
    /\ result = "none"
    /\ clicks = 0
    /\ confirmed = FALSE
    /\ detected = "none"
    /\ outcome = "none"

(* ------------------------------- main() -------------------------------- *)

(* lines 480-488: the storageState file must exist, else process.exit(1) *)
CheckStorageState ==
    /\ pc = "start"
    /\ IF storageExists THEN pc' = "load" /\ exitCode' = exitCode
       ELSE pc' = "exit" /\ exitCode' = 1
    /\ UNCHANGED <<inputVars, detected, disk, processed, loaded, lastSave, browser, i, clicks, shown>>
    /\ UNCHANGED <<gotoVars, collectVars, urlVars, likeVars>>

(* lines 490-492: const processed = await loadProcessed() *)
Load ==
    /\ pc = "load"
    /\ processed' = LoadProcessed(disk)
    /\ loaded' = processed'
    /\ pc' = "readcsv"
    /\ UNCHANGED <<exitCode, inputVars, detected, disk, lastSave, browser, i, clicks, shown>>
    /\ UNCHANGED <<gotoVars, collectVars, urlVars, likeVars>>

(* mutant of ReadCsv: the urls.length === 0 check of line 510 is missing *)
ReadCsvWithoutEmptyCheck ==
    /\ pc = "readcsv"
    /\ IF inputFile \in {"urls", "empty"} THEN pc' = "launch" /\ exitCode' = exitCode
       ELSE pc' = "exit" /\ exitCode' = 1
    /\ UNCHANGED <<inputVars, detected, disk, processed, loaded, lastSave, browser, i, clicks, shown>>
    /\ UNCHANGED <<gotoVars, collectVars, urlVars, likeVars>>

(* lines 494-517: read input.csv; process.exit(1) when unreadable or without a URL *)
ReadCsv ==
    /\ pc = "readcsv"
    /\ IF inputFile = "urls" THEN pc' = "launch" /\ exitCode' = exitCode
       ELSE pc' = "exit" /\ exitCode' = 1
    /\ UNCHANGED <<inputVars, detected, disk, processed, loaded, lastSave, browser, i, clicks, shown>>
    /\ UNCHANGED <<gotoVars, collectVars, urlVars, likeVars>>

(* lines 530-543: chromium.launch, newContext, newPage; each of them may throw *)
Launch ==
    /\ pc = "launch"
    /\ \E launched \in BOOLEAN, pageReady \in BOOLEAN :
         /\ browser' = IF launched THEN "open" ELSE "none"
         /\ pc' = IF launched /\ pageReady THEN "loop" ELSE "finally"
    /\ i' = 0
    /\ UNCHANGED <<exitCode, inputVars, detected, disk, processed, loaded, lastSave, clicks, shown>>
    /\ UNCHANGED <<gotoVars, collectVars, urlVars, likeVars>>

(* lines 546-550, 313-317: urlsToProcess[i] exists: processUrl(page, url, processed)
   is called and starts robustGoto; the URL of the row is any target *)
StartUrl ==
    /\ pc = "loop"
    /\ i < MaxRows
    /\ \E u \in Targets : url' = u
    /\ navLog' = <<>>
    /\ attempt' = 0
    /\ outcome' = "none"
    /\ tweetUrls' = <<>>
    /\ likedCount' = 0
    /\ processedUrls' = {}
    /\ dispatched' = <<>>
    /\ remainingUrls' = <<>>
    /\ pc' = "goto"
    /\ UNCHANGED <<inputVars, detected, shown>>
    /\ UNCHANGED <<mainVars, collectVars, likeVars>>

(* line 546: i has reached urlsToProcess.length (slice(0, ROWS_PER_LAUNCH) of the rows) *)
LoopEnd ==
    /\ pc = "loop"
    /\ pc' = "finally"
    /\ UNCHANGED <<inputVars, detected, shown>>
    /\ UNCHANGED <<mainVars, gotoVars, collectVars, urlVars, likeVars>>

(* mutant of CapReachedAfterUrl: > instead of >= *)
CapExceededAfterUrl == processed.dayCount > config.DAILY_CAP

(* line 560: if (processed.dayCount >= config.DAILY_CAP) break *)
CapReachedAfterUrl == processed.dayCount >= config.DAILY_CAP

(* lines 552-563: processUrl has returned: pause, then the daily cap check *)
AfterUrl ==
    /\ pc = "return"
    /\ IF CapReachedAfterUrl
       THEN pc' = "finally" /\ i' = i
       ELSE pc' = "loop" /\ i' = i + 1
    /\ url' = <<>>
    /\ navLog' = <<>>
    /\ attempt' = 0
    /\ tweetUrls' = <<>>
    /\ processedUrls' = {}
    /\ dispatched' = <<>>
    /\ likedCount' = 0
    /\ detected' = "none"
    /\ outcome' = "none"
    /\ UNCHANGED <<exitCode, inputVars, disk, processed, loaded, lastSave, browser, clicks, shown>>
    /\ UNCHANGED remainingUrls
    /\ UNCHANGED <<collectVars, likeVars>>

(* lines 569-577: finally { browser.close() }, final stats, exit status 0 *)
Finally ==
    /\ pc = "finally"
    /\ browser' = IF browser = "open" THEN "closed" ELSE browser
    /\ shown' = 0
    /\ pc' = "exit"
    /\ exitCode' = 0
    /\ UNCHANGED <<inputVars, detected, disk, processed, loaded, lastSave, i, clicks>>
    /\ UNCHANGED <<gotoVars, collectVars, urlVars, likeVars>>

(* ---------------------------- robustGoto() ----------------------------- *)

(* mutant of Caught: processUrl has no catch, the error reaches the catch of main *)
CaughtByMain ==
    /\ pc' = "finally"
    /\ outcome' = "none"
    /\ tweetUrls' = <<>>
    /\ processedUrls' = {}
    /\ dispatched' = <<>>
    /\ remainingUrls' = <<>>
    /\ likedCount' = likedCount

(* lines 469-472: an error reaches the catch of processUrl:
   return { success: false, liked: 0 }; the locals of processUrl are gone *)
Caught ==
    /\ pc' = "return"
    /\ outcome' = "failure"
    /\ tweetUrls' = <<>>
    /\ processedUrls' = {}
    /\ dispatched' = <<>>
    /\ remainingUrls' = <<>>
    /\ likedCount' = likedCount

(* page.goto + waitForSelector succeeded: the page renders nothing yet or a first tweet *)
Rendered == 0..1

(* lines 91-115: one attempt on the original URL *)
GotoAttempt ==
    /\ pc = "goto"
    /\ attempt < maxRetries
    /\ navLog' = Append(navLog, url)
    /\ \E ok \in BOOLEAN, rendered \in Rendered :
         IF ok
         THEN /\ pc' = "login"
              /\ shown' = rendered
              /\ attempt' = attempt
              /\ UNCHANGED urlVars
         ELSE /\ attempt' = attempt + 1
              /\ shown' = shown
              /\ IF attempt + 1 < maxRetries THEN pc' = "goto" /\ UNCHANGED urlVars
                 ELSE IF IncludesX(url) THEN pc' = "fallback" /\ UNCHANGED urlVars
                 ELSE Caught
    /\ UNCHANGED <<inputVars, detected, url>>
    /\ UNCHANGED <<mainVars, collectVars, likeVars>>

(* lines 117-135: the twitter.com fallback; when it fails too, lastError is thrown *)
GotoFallback ==
    /\ pc = "fallback"
    /\ navLog' = Append(navLog, ReplaceX(url))
    /\ \E ok \in BOOLEAN, rendered \in Rendered :
         IF ok
         THEN pc' = "login" /\ shown' = rendered /\ UNCHANGED urlVars
         ELSE Caught /\ shown' = shown
    /\ UNCHANGED <<inputVars, detected, url, attempt>>
    /\ UNCHANGED <<mainVars, collectVars, likeVars>>

(* --------------------- processUrl(): before the scan ------------------- *)

(* mutant of CheckLogin: the rate-limit block of lines 325-346 is missing *)
CheckLoginThenScan ==
    /\ pc = "login"
    /\ \E login \in BOOLEAN :
         IF login
         THEN /\ pc' = "return" /\ outcome' = "failure" /\ detected' = "login"
              /\ UNCHANGED collectVars
         ELSE /\ collected' = <<>> /\ lastHeight' = 0 /\ noChangeCount' = 0
              /\ stillSteps' = 0 /\ firstScan' = TRUE /\ pc' = "collect"
              /\ outcome' = outcome /\ detected' = "none"
    /\ url' = <<>>
    /\ navLog' = <<>>
    /\ attempt' = 0
    /\ UNCHANGED <<inputVars, shown, tweetUrls, likedCount, processedUrls, dispatched, remainingUrls>>
    /\ UNCHANGED <<mainVars, likeVars>>

(* mutant of CheckLogin: the return of line 322 is missing *)
CheckLoginFallsThrough ==
    /\ pc = "login"
    /\ \E login \in BOOLEAN : detected' = IF login THEN "login" ELSE "none"
    /\ pc' = "ratelimit"
    /\ url' = <<>>
    /\ navLog' = <<>>
    /\ attempt' = 0
    /\ UNCHANGED <<inputVars, shown, mainVars, collectVars, urlVars, likeVars>>

(* lines 319-323: isLoginPage(page): return { success: false, liked: 0 } *)
CheckLogin ==
    /\ pc = "login"
    /\ \E login \in BOOLEAN :
         IF login THEN pc' = "return" /\ outcome' = "failure" /\ detected' = "login"
         ELSE pc' = "ratelimit" /\ outcome' = outcome /\ detected' = "none"
    /\ url' = <<>>
    /\ navLog' = <<>>
    /\ attempt' = 0
    /\ UNCHANGED <<inputVars, shown, tweetUrls, likedCount, processedUrls, dispatched, remainingUrls>>
    /\ UNCHANGED <<mainVars, collectVars, likeVars>>

(* line 349 and lines 142-146: collectTweetIds(page, config.MAX_SCAN) starts *)
BeginScan ==
    /\ collected' = <<>>
    /\ lastHeight' = 0
    /\ noChangeCount' = 0
    /\ stillSteps' = 0
    /\ firstScan' = TRUE
    /\ pc' = "collect"

(* lines 325-330: isRateLimited(page); when limited, sleep calculateBackoff(0) *)
CheckRateLimit ==
    /\ pc = "ratelimit"
    /\ \E limited \in BOOLEAN :
         IF limited THEN pc' = "reload" /\ detected' = "limited" /\ UNCHANGED collectVars
         ELSE BeginScan /\ detected' = "none"
    /\ UNCHANGED <<inputVars, shown>>
    /\ UNCHANGED <<mainVars, gotoVars, urlVars, likeVars>>

(* mutant of Reload: a page that is still rate limited is reloaded again *)
ReloadUntilClear ==
    /\ pc = "reload"
    /\ \E reloaded \in BOOLEAN, rendered \in Rendered, limited \in BOOLEAN :
         /\ shown' = IF reloaded THEN rendered ELSE shown
         /\ IF limited
            THEN pc' = "reload" /\ detected' = "limited" /\ UNCHANGED collectVars
            ELSE BeginScan /\ detected' = "none"
    /\ UNCHANGED <<inputVars, mainVars, gotoVars, urlVars, likeVars>>

(* lines 332-346: one reload (a failing reload is only logged), then the re-check *)
Reload ==
    /\ pc = "reload"
    /\ \E reloaded \in BOOLEAN, rendered \in Rendered, limited \in BOOLEAN :
         /\ shown' = IF reloaded THEN rendered ELSE shown
         /\ IF limited
            THEN /\ pc' = "return" /\ outcome' = "failure" /\ detected' = "limited"
                 /\ UNCHANGED collectVars
            ELSE BeginScan /\ outcome' = outcome /\ detected' = "none"
    /\ UNCHANGED <<inputVars, tweetUrls, likedCount, processedUrls, dispatched, remainingUrls>>
    /\ UNCHANGED <<mainVars, gotoVars, likeVars>>

(* -------------------------- collectTweetIds() -------------------------- *)

(* await page.$$(selector): the tweets rendered in the DOM, in document order *)
DomItems(n) == [k \in 1..n |-> StatusUrl(k)]

(* tweetUrls.add(statusUrl) on a Set: insertion order, no second copy *)
SetAdd(s, u) == IF u \in Range(s) THEN s ELSE Append(s, u)

RECURSIVE AddElements(_, _, _)
(* lines 197-208: for (const element of elements), with the break at maxScan *)
AddElements(s, elements, maxScan) ==
    IF elements = <<>> \/ Len(s) >= maxScan THEN s
    ELSE AddElements(SetAdd(s, Head(elements)), Tail(elements), maxScan)

(* lines 193-212: both selectors, '[data-testid="tweet"]' and 'article', match every tweet *)
Gather(s, n, maxScan) ==
    AddElements(AddElements(s, DomItems(n), maxScan), DomItems(n), maxScan)

(* document.body.scrollHeight: grows with the rendered timeline *)
PageHeight(n) == n + 1

(* line 188: the loop condition of collectTweetIds *)
CollectMore == Len(collected) < config.MAX_SCAN /\ noChangeCount < MAX_NO_CHANGE

(* window.scrollBy: the timeline renders one more tweet or stays as it is *)
Scroll ==
    \E grow \in BOOLEAN :
         /\ grow => shown < MaxFeed
         /\ shown' = IF grow THEN shown + 1 ELSE shown

(* lines 188-231: one iteration: gather, scroll, measure the page height *)
CollectStep ==
    /\ pc = "collect"
    /\ CollectMore
    /\ collected' = Gather(collected, shown, config.MAX_SCAN)
    /\ Scroll
    /\ stillSteps' = IF PageHeight(shown') = PageHeight(shown) THEN stillSteps + 1 ELSE 0
    /\ IF PageHeight(shown') = lastHeight
       THEN noChangeCount' = noChangeCount + 1 /\ lastHeight' = lastHeight
       ELSE noChangeCount' = 0 /\ lastHeight' = PageHeight(shown')
    /\ UNCHANGED <<pc, inputVars, detected, firstScan>>
    /\ UNCHANGED <<mainVars, gotoVars, urlVars, likeVars>>

(* collectTweetIds returns or throws: its locals go out of scope *)
EndScan ==
    /\ collected' = <<>>
    /\ lastHeight' = 0
    /\ noChangeCount' = 0
    /\ stillSteps' = 0
    /\ firstScan' = TRUE

(* lines 216-221, 234: a page call rejects; the error reaches the catch of processUrl *)
CollectThrow ==
    /\ pc = "collect"
    /\ Caught
    /\ EndScan
    /\ UNCHANGED <<inputVars, detected, shown>>
    /\ UNCHANGED <<mainVars, gotoVars, likeVars>>

(* lines 233-237 and 349-353: the first pass returns Array.from(tweetUrls) *)
CollectReturnFirst ==
    /\ pc = "collect"
    /\ ~CollectMore
    /\ firstScan
    /\ tweetUrls' = collected
    /\ likedCount' = 0
    /\ processedUrls' = {}
    /\ dispatched' = <<>>
    /\ EndScan
    /\ pc' = "while"
    /\ UNCHANGED <<inputVars, detected, shown, remainingUrls, outcome>>
    /\ UNCHANGED <<mainVars, gotoVars, likeVars>>

(* lines 372-374, 458-460: [...tweetUrls, ...newUrls.filter(url => !processedUrls.has(url))] *)
Merged == tweetUrls \o Filter(collected, Range(collected) \ processedUrls)

(* lines 372-375 and 459-461: an incremental pass returns; the URLs not in
   processedUrls are appended to tweetUrls *)
CollectReturnMore ==
    /\ pc = "collect"
    /\ ~CollectMore
    /\ ~firstScan
    /\ Len(Merged) <= MaxUrls
    /\ tweetUrls' = Merged
    /\ EndScan
    /\ pc' = "while"
    /\ UNCHANGED <<inputVars, detected, shown, likedCount, processedUrls, dispatched, remainingUrls, outcome>>
    /\ UNCHANGED <<mainVars, gotoVars, likeVars>>

(* ---------------------- processUrl(): the like loop -------------------- *)

(* mutant of IsLiked: the ledger is looked up by the URL instead of the status id *)
IsLikedByUrl(ledger, u) == \E key \in ledger.liked : Len(u) = 1 /\ u[1] = key

(* lines 360, 396: processed.liked[statusId] *)
IsLiked(ledger, u) == StatusId(u) \in ledger.liked

(* lines 356, 449: the quota part of the loop condition *)
QuotaLeft == likedCount < config.TWEETS_TO_LIKE /\ processed.dayCount < config.DAILY_CAP

RECURSIVE Reverse(_)
Reverse(s) == IF s = <<>> THEN <<>> ELSE Append(Reverse(Tail(s)), Head(s))

(* mutant of Remaining: the batch is iterated newest first *)
RemainingNewestFirst(urls, ledger, done) ==
    Reverse(Filter(urls, {u \in Range(urls) : ~IsLiked(ledger, u) /\ u \notin done}))

(* mutant of Remaining: the filter of line 360 does not look at processedUrls *)
RemainingIgnoringDone(urls, ledger, done) ==
    Filter(urls, {u \in Range(urls) : ~IsLiked(ledger, u)})

(* lines 358-361: tweetUrls.filter(not liked and not in processedUrls) *)
Remaining(urls, ledger, done) ==
    Filter(urls, {u \in Range(urls) : ~IsLiked(ledger, u) /\ u \notin done})

(* lines 366-372 and 453-459: scroll, then a fresh collectTweetIds pass *)
Rescan ==
    /\ Scroll
    /\ collected' = <<>>
    /\ lastHeight' = 0
    /\ noChangeCount' = 0
    /\ stillSteps' = 0
    /\ firstScan' = FALSE
    /\ pc' = "collect"

(* lines 356, 466-467: the while condition fails: return { success: true, liked } *)
WhileExit ==
    /\ pc = "while"
    /\ ~(QuotaLeft /\ Len(tweetUrls) > 0)
    /\ outcome' = "success"
    /\ pc' = "return"
    /\ remainingUrls' = <<>>
    /\ UNCHANGED <<inputVars, detected, shown, tweetUrls, likedCount, processedUrls, dispatched>>
    /\ UNCHANGED <<mainVars, gotoVars, collectVars, likeVars>>

(* lines 363-376: nothing left in the batch: scroll and collect more, continue *)
WhileRescan ==
    /\ pc = "while"
    /\ QuotaLeft /\ Len(tweetUrls) > 0
    /\ Remaining(tweetUrls, processed, processedUrls) = <<>>
    /\ Rescan
    /\ UNCHANGED <<inputVars, detected, tweetUrls, likedCount, processedUrls, dispatched, remainingUrls, outcome>>
    /\ UNCHANGED <<mainVars, gotoVars, likeVars>>

(* lines 358-379: a batch of remaining URLs is iterated *)
WhileBatch ==
    /\ pc = "while"
    /\ QuotaLeft /\ Len(tweetUrls) > 0
    /\ Remaining(tweetUrls, processed, processedUrls) # <<>>
    /\ remainingUrls' = Remaining(tweetUrls, processed, processedUrls)
    /\ pc' = "for"
    /\ UNCHANGED <<inputVars, detected, shown, tweetUrls, likedCount, processedUrls, dispatched, outcome>>
    /\ UNCHANGED <<mainVars, gotoVars, collectVars, likeVars>>

(* mutant of DailyCapReached: > instead of >= *)
DailyCapExceeded == processed.dayCount > config.DAILY_CAP

(* mutant of ProfileLimitReached: > instead of >= *)
ProfileLimitExceeded == likedCount > config.TWEETS_TO_LIKE

(* line 381: if (processed.dayCount >= config.DAILY_CAP) break *)
DailyCapReached == processed.dayCount >= config.DAILY_CAP

(* line 387: if (likedCount >= config.TWEETS_TO_LIKE) break *)
ProfileLimitReached == likedCount >= config.TWEETS_TO_LIKE

(* lines 379-404: one iteration of for (const statusUrl of remainingUrls): the two
   cap checks break, a liked id is skipped, otherwise likeTweetById is called *)
ForItem ==
    /\ pc = "for"
    /\ IF remainingUrls = <<>> \/ DailyCapReached \/ ProfileLimitReached
       THEN /\ pc' = "afterfor"
            /\ remainingUrls' = <<>>
            /\ UNCHANGED <<processedUrls, dispatched, statusUrl>>
       ELSE IF IsLiked(processed, Head(remainingUrls))
       THEN /\ processedUrls' = processedUrls \cup {Head(remainingUrls)}
            /\ remainingUrls' = Tail(remainingUrls)
            /\ UNCHANGED <<pc, statusUrl, dispatched>>
       ELSE /\ statusUrl' = Head(remainingUrls)
            /\ remainingUrls' = Tail(remainingUrls)
            /\ pc' = "like"
            /\ UNCHANGED processedUrls
            /\ dispatched' = Append(dispatched, Head(remainingUrls))
    /\ UNCHANGED <<inputVars, detected, shown, tweetUrls, likedCount, outcome>>
    /\ UNCHANGED <<retry, target, result, confirmed>>
    /\ UNCHANGED <<mainVars, gotoVars, collectVars>>

(* lines 448-463: after the batch, with quota left and every URL in processedUrls:
   scroll and collect more *)
AfterForRescan ==
    /\ pc = "afterfor"
    /\ QuotaLeft
    /\ Range(tweetUrls) \subseteq processedUrls
    /\ Rescan
    /\ UNCHANGED <<inputVars, detected, tweetUrls, likedCount, processedUrls, dispatched, remainingUrls, outcome>>
    /\ UNCHANGED <<mainVars, gotoVars, likeVars>>

(* lines 448-464: otherwise back to the while condition *)
AfterForLoop ==
    /\ pc = "afterfor"
    /\ ~(QuotaLeft /\ Range(tweetUrls) \subseteq processedUrls)
    /\ pc' = "while"
    /\ UNCHANGED <<inputVars, detected, shown>>
    /\ UNCHANGED <<mainVars, gotoVars, collectVars, urlVars, likeVars>>

(* --------------------------- likeTweetById() --------------------------- *)

(* lines 243-254: the first query of the locators, outside the try block:
   nothing found returns tweet-not-found, a rejected count() is not retried *)
LikeEnter ==
    /\ pc = "like"
    /\ \E found \in {"yes", "no", "throws"} :
         CASE found = "yes" -> pc' = "attempt" /\ result' = result
           [] found = "no" -> pc' = "handle" /\ result' = "not-found"
           [] found = "throws" -> pc' = "handle" /\ result' = "threw"
    /\ retry' = 0
    /\ target' = "none"
    /\ UNCHANGED <<inputVars, detected, shown, statusUrl, confirmed>>
    /\ UNCHANGED <<mainVars, gotoVars, collectVars, urlVars>>

(* mutant of LikeCatch: the catch retries while retry < 3, a fourth attempt runs *)
LikeCatchOneMore ==
    IF retry < LikeAttempts
    THEN pc' = "attempt" /\ retry' = retry + 1 /\ result' = result
    ELSE pc' = "handle" /\ retry' = 0 /\ result' = "threw"

(* lines 299-306: catch: retry while retry < 2, else rethrow to processUrl *)
LikeCatch ==
    IF retry < LikeAttempts - 1
    THEN pc' = "attempt" /\ retry' = retry + 1 /\ result' = result
    ELSE pc' = "handle" /\ retry' = 0 /\ result' = "threw"

(* mutant of AttemptStep: the unlike marker is not looked at before the click *)
AttemptStepNoMarkerCheck(seen) ==
    CASE seen = "none" -> "not-found"
      [] seen = "unlike" -> "click"
      [] seen = "like" -> "click"

(* lines 260-298: what one attempt does with what its fresh query found: no article
   returns tweet-not-found, a visible unlike marker returns already, otherwise the
   like button gets the real click *)
AttemptStep(seen) ==
    CASE seen = "none" -> "not-found"
      [] seen = "unlike" -> "already"
      [] seen = "like" -> "click"

(* lines 257-298: one attempt: the fresh query finds no article, the unlike marker,
   or the like button (or a locator call rejects); the real click rejects or clicks;
   the wait for the unlike marker is caught either way *)
LikeAttempt ==
    /\ pc = "attempt"
    /\ \E seen \in {"none", "unlike", "like", "throws"}, clicked \in BOOLEAN, flipped \in BOOLEAN :
         IF seen = "throws"
         THEN /\ LikeCatch
              /\ target' = "none"
              /\ UNCHANGED <<clicks, confirmed>>
         ELSE /\ target' = seen
              /\ IF AttemptStep(seen) # "click"
                 THEN /\ pc' = "handle" /\ result' = AttemptStep(seen) /\ retry' = 0
                      /\ UNCHANGED <<clicks, confirmed>>
                 ELSE IF clicked
                 THEN /\ pc' = "handle" /\ result' = "ok" /\ retry' = 0
                      /\ clicks' = clicks + 1
                      /\ confirmed' = flipped
                 ELSE /\ LikeCatch
                      /\ UNCHANGED <<clicks, confirmed>>
    /\ UNCHANGED <<exitCode, disk, processed, loaded, lastSave, browser, i>>
    /\ UNCHANGED <<inputVars, detected, shown, statusUrl>>
    /\ UNCHANGED <<gotoVars, collectVars, urlVars>>

(* mutant of SavesAfter: saveProcessed sits after the if/else, failures included *)
SavesAfterEvery(res) == res \in {"ok", "already", "not-found", "threw"}

(* mutant of SavesAfter: saveProcessed sits in the already branch only *)
SavesAfterAlready(res) == res = "already"

(* lines 406, 425-426: saveProcessed is called in the result.ok branch, liked or already *)
SavesAfter(res) == res \in {"ok", "already"}

(* mutant of Handle: processed.dayCount++ stands outside the else of line 409 *)
HandleCountsAlready ==
    /\ pc = "handle"
    /\ processedUrls' = processedUrls \cup {statusUrl}
    /\ UNCHANGED dispatched
    /\ IF result \in {"ok", "already"}
       THEN /\ likedCount' = IF result = "ok" THEN likedCount + 1 ELSE likedCount
            /\ processed' = [processed EXCEPT
                   !.dayCount = @ + 1,
                   !.liked = @ \cup {StatusId(statusUrl)}]
       ELSE UNCHANGED <<likedCount, processed>>
    /\ pc' = IF SavesAfter(result) THEN "save" ELSE "for"
    /\ statusUrl' = <<>>
    /\ retry' = 0
    /\ target' = "none"
    /\ result' = "none"
    /\ confirmed' = FALSE
    /\ UNCHANGED <<exitCode, disk, loaded, lastSave, browser, i, clicks>>
    /\ UNCHANGED <<inputVars, detected, shown, tweetUrls, remainingUrls, outcome>>
    /\ UNCHANGED <<gotoVars, collectVars>>

(* lines 406-445: processUrl takes the result of likeTweetById *)
Handle ==
    /\ pc = "handle"
    /\ processedUrls' = processedUrls \cup {statusUrl}
    /\ UNCHANGED dispatched
    /\ IF result \in {"ok", "already"}
       THEN /\ likedCount' = IF result = "ok" THEN likedCount + 1 ELSE likedCount
            /\ processed' = [processed EXCEPT
                   !.dayCount = IF result = "ok" THEN @ + 1 ELSE @,
                   !.liked = @ \cup {StatusId(statusUrl)}]
       ELSE UNCHANGED <<likedCount, processed>>
    /\ pc' = IF SavesAfter(result) THEN "save" ELSE "for"
    /\ statusUrl' = <<>>
    /\ retry' = 0
    /\ target' = "none"
    /\ result' = "none"
    /\ confirmed' = FALSE
    /\ UNCHANGED <<exitCode, disk, loaded, lastSave, browser, i, clicks>>
    /\ UNCHANGED <<inputVars, detected, shown, tweetUrls, remainingUrls, outcome>>
    /\ UNCHANGED <<gotoVars, collectVars>>

(* mutant of Save: saveProcessed has no try/catch and the write error ends processUrl *)
SaveOrThrow ==
    /\ pc = "save"
    /\ lastSave' = processed
    /\ \E written \in BOOLEAN :
         IF written
         THEN disk' = processed /\ pc' = "for" /\ UNCHANGED urlVars
         ELSE disk' = disk /\ Caught
    /\ \E after \in {"clear", "limited-then-clear", "limited-still"} :
         detected' = IF after = "limited-still" THEN "limited-after-like" ELSE detected
    /\ UNCHANGED <<exitCode, processed, loaded, browser, i, clicks>>
    /\ UNCHANGED <<inputVars, shown>>
    /\ UNCHANGED <<gotoVars, collectVars, likeVars>>

(* lines 425-437, 76-83: saveProcessed(processed), a failing write is only logged;
   then the delay and isRateLimited: a detected rate limit is answered by one sleep of
   calculateBackoff(0), after which the page is clear again or still rate limited *)
Save ==
    /\ pc = "save"
    /\ lastSave' = processed
    /\ \E written \in BOOLEAN : disk' = IF written THEN processed ELSE disk
    /\ \E after \in {"clear", "limited-then-clear", "limited-still"} :
         detected' = IF after = "limited-still" THEN "limited-after-like" ELSE detected
    /\ pc' = "for"
    /\ UNCHANGED <<exitCode, processed, loaded, browser, i, clicks>>
    /\ UNCHANGED <<inputVars, shown>>
    /\ UNCHANGED <<gotoVars, collectVars, urlVars, likeVars>>

(* ------------------------------ the run -------------------------------- *)
Next ==
    \/ CheckStorageState
    \/ Load
    \/ ReadCsv
    \/ Launch
    \/ StartUrl
    \/ LoopEnd
    \/ AfterUrl
    \/ Finally
    \/ GotoAttempt
    \/ GotoFallback
    \/ CheckLogin
    \/ CheckRateLimit
    \/ Reload
    \/ CollectStep
    \/ CollectThrow
    \/ CollectReturnFirst
    \/ CollectReturnMore
    \/ WhileExit
    \/ WhileRescan
    \/ WhileBatch
    \/ ForItem
    \/ AfterForRescan
    \/ AfterForLoop
    \/ LikeEnter
    \/ LikeAttempt
    \/ Handle
    \/ Save

Spec == Init /\ [][Next]_vars

(* every await of the single thread of control completes: the run keeps taking steps *)
FairSpec == Spec /\ WF_vars(Next)

(* ------------------------- the runs of one day ------------------------- *)

(* the first run of a calendar day: processed.json is absent, unreadable, or was last
   written on an earlier day *)
DayInit ==
    /\ Init
    /\ disk \in {AbsentFile, UnreadableFile} \/ disk.dayStart = Yesterday

(* the process ends at any point (by itself at exit, or killed) and bot.js is started
   again on the same day with the same flags: every object of the process is gone,
   processed.json and the likes given on the site stay.  The day is followed until the
   clicks have passed every cap. *)
Restart ==
    /\ clicks <= MaxCap
    /\ pc' = "start"
    /\ exitCode' = -1
    /\ processed' = ZeroLedger
    /\ loaded' = ZeroLedger
    /\ lastSave' = NoSave
    /\ browser' = "none"
    /\ i' = 0
    /\ url' = <<>>
    /\ navLog' = <<>>
    /\ attempt' = 0
    /\ shown' = 0
    /\ collected' = <<>>
    /\ lastHeight' = 0
    /\ noChangeCount' = 0
    /\ stillSteps' = 0
    /\ firstScan' = TRUE
    /\ tweetUrls' = <<>>
    /\ likedCount' = 0
    /\ processedUrls' = {}
    /\ dispatched' = <<>>
    /\ remainingUrls' = <<>>
    /\ statusUrl' = <<>>
    /\ retry' = 0
    /\ target' = "none"
    /\ result' = "none"
    /\ confirmed' = FALSE
    /\ detected' = "none"
    /\ outcome' = "none"
    /\ UNCHANGED <<inputVars, disk, clicks>>

DayNext ==
    \/ Next
    \/ Restart

DaySpec == DayInit /\ [][DayNext]_vars

(* ------------------- loadProcessed() on any JSON value ------------------ *)

(* processed.json holding the JSON text null: fs.readJson resolves to null *)
NullFile == [kind |-> "null"]

(* the error that leaves loadProcessed and main and reaches main().catch *)
LoadThrew == [kind |-> "threw"]

Fields == {"liked", "dayCount", "dayStart"}

(* fs.readJson of a JSON object that has only the keys dom of a ledger *)
PartOf(ledger, dom) == [f \in dom |-> ledger[f]]

PartialObjects == {PartOf(ledger, dom) : ledger \in Ledgers, dom \in (SUBSET Fields) \ {Fields}}

(* the parseable contents of processed.json that are followed *)
ParseableFiles == Ledgers \cup PartialObjects \cup {NullFile}

(* lines 47-73 on any parsed value: processed = data; reading dayStart of null throws a
   TypeError outside the try block; a missing dayStart is undefined, which is not today,
   so dayCount and dayStart are assigned; no other key is looked at or created *)
LoadProcessedParsed(file) ==
    IF file = NullFile THEN LoadThrew
    ELSE IF "dayStart" \in DOMAIN file /\ file["dayStart"] = Today THEN file
    ELSE [f \in DOMAIN file \cup {"dayCount", "dayStart"} |->
             IF f = "dayCount" THEN 0 ELSE IF f = "dayStart" THEN Today ELSE file[f]]

(* module state before main(), with any parseable processed.json on disk *)
LoadInit ==
    /\ pc = "start"
    /\ exitCode = -1
    /\ config \in Configs
    /\ storageExists \in BOOLEAN
    /\ inputFile \in {"missing", "empty", "urls"}
    /\ disk \in ParseableFiles
    /\ processed = ZeroLedger
    /\ loaded = ZeroLedger
    /\ lastSave = NoSave
    /\ browser = "none"
    /\ i = 0
    /\ url = <<>>
    /\ navLog = <<>>
    /\ attempt = 0
    /\ shown = 0
    /\ collected = <<>>
    /\ lastHeight = 0
    /\ noChangeCount = 0
    /\ stillSteps = 0
    /\ firstScan = TRUE
    /\ tweetUrls = <<>>
    /\ likedCount = 0
    /\ processedUrls = {}
    /\ dispatched = <<>>
    /\ remainingUrls = <<>>
    /\ statusUrl = <<>>
    /\ retry = 0
    /\ target = "none"
    /\ result = "none"
    /\ clicks = 0
    /\ confirmed = FALSE
    /\ detected = "none"
    /\ outcome = "none"

(* lines 490-492 and 579-582: const processed = await loadProcessed() stands before the
   try of main: an error of loadProcessed rejects main() and process.exit(1) runs *)
LoadParsed ==
    /\ pc = "load"
    /\ loaded' = LoadProcessedParsed(disk)
    /\ IF loaded' = LoadThrew
       THEN pc' = "exit" /\ exitCode' = 1 /\ processed' = processed
       ELSE pc' = "readcsv" /\ exitCode' = exitCode /\ processed' = loaded'
    /\ UNCHANGED <<inputVars, detected, disk, lastSave, browser, i, clicks, shown>>
    /\ UNCHANGED <<gotoVars, collectVars, urlVars, likeVars>>

(* the startup of main(), up to the first URL *)
LoadNext ==
    \/ CheckStorageState
    \/ LoadParsed
    \/ ReadCsv
    \/ Launch

LoadSpec == LoadInit /\ [][LoadNext]_vars

(* ============================== claims ================================= *)

(* C1, as claimed: in every state after the load, whatever the persisted ledger and the
   configured cap, processed.dayCount is at most DAILY_CAP. *)
C1_DayCountWithinCap ==
    (pc \notin {"start", "load"} /\ exitCode # 1) => processed.dayCount <= config.DAILY_CAP

(* C1, amended: in every state after the load, processed.dayCount is at most the larger
   of DAILY_CAP and the dayCount that load returned: the run itself never counts
   past the cap, but a persisted count of today that is above the cap is kept. *)
C1_DayCountNeverPassesCap ==
    (pc \notin {"start", "load"} /\ exitCode # 1) =>
        processed.dayCount <= IF config.DAILY_CAP > loaded.dayCount
                              THEN config.DAILY_CAP ELSE loaded.dayCount

(* a like of this run brings dayCount to the cap while the batch still holds items *)
C1_CapReachedByLike ==
    /\ pc = "save"
    /\ processed.dayCount = config.DAILY_CAP
    /\ processed.dayCount > loaded.dayCount
    /\ remainingUrls # <<>>

(* C2: the likedCount of a Target never exceeds TWEETS_TO_LIKE, and likeTweetById is
   not running for that Target once likedCount equals TWEETS_TO_LIKE. *)
C2_PerTargetCap ==
    /\ likedCount <= config.TWEETS_TO_LIKE
    /\ pc \in {"like", "attempt", "handle"} => likedCount < config.TWEETS_TO_LIKE

(* the per-target cap is reached while the batch still holds items *)
C2_LimitReachedWithItemsLeft ==
    /\ pc = "for"
    /\ likedCount = config.TWEETS_TO_LIKE
    /\ remainingUrls # <<>>

(* C3: likeTweetById is never invoked on an item whose status id is in
   processed.liked, whether the id was loaded from the file or added earlier in the
   run, by this Target or an earlier one. *)
C3_NoLikeOfLedgerId ==
    pc \in {"like", "attempt", "handle"} => StatusId(statusUrl) \notin processed.liked

(* on a later Target, likeTweetById is invoked while the scan holds an id that this
   run added to the ledger *)
C3_LedgerIdInScan ==
    /\ pc = "like"
    /\ i > 0
    /\ \E u \in Range(tweetUrls) : StatusId(u) \in processed.liked \ loaded.liked

(* C4: for a persisted ledger, load returns dayStart = today, dayCount = 0 when the
   persisted dayStart is another day and the persisted dayCount otherwise, and the
   persisted liked map; nothing is clicked or saved before the load, and after it
   dayStart stays today and dayCount is never reset again. *)
C4_LoadNormalizesOnce ==
    /\ pc \in {"start", "load"} => clicks = 0 /\ lastSave = NoSave /\ processed = ZeroLedger
    /\ (pc = "readcsv" /\ disk \in Ledgers) =>
          /\ processed = loaded
          /\ loaded.dayStart = Today
          /\ loaded.liked = disk.liked
          /\ loaded.dayCount = IF disk.dayStart = Today THEN disk.dayCount ELSE 0
    /\ (pc \notin {"start", "load"} /\ exitCode # 1) =>
          processed.dayStart = Today /\ processed.dayCount >= loaded.dayCount

(* a ledger of another day with a positive count has been loaded *)
C4_StaleLedgerLoaded ==
    /\ pc = "readcsv"
    /\ disk \in Ledgers
    /\ disk.dayStart # Today
    /\ disk.dayCount > 0
    /\ loaded.dayCount = 0
    /\ loaded.liked # {}

(* C5: the first Target of a run with an empty ledger, on which every invocation of
   likeTweetById liked its item: when processUrl returns success, with K the number of
   URLs discovered, P = TWEETS_TO_LIKE and D = DAILY_CAP, likedCount and dayCount are
   min(P, D, K) and processed.liked holds exactly the first min(P, D, K) ids in
   discovery order. *)
C5_EndToEnd ==
    (/\ pc = "return" /\ outcome = "success" /\ i = 0
     /\ loaded.liked = {} /\ loaded.dayCount = 0
     /\ Cardinality(processedUrls) = likedCount)
    => LET pd == IF config.TWEETS_TO_LIKE < config.DAILY_CAP
                 THEN config.TWEETS_TO_LIKE ELSE config.DAILY_CAP
           m == IF pd < Len(tweetUrls) THEN pd ELSE Len(tweetUrls)
       IN  /\ likedCount = m
           /\ processed.dayCount = m
           /\ processed.liked = {StatusId(tweetUrls[k]) : k \in 1..m}

(* such a run ends with more URLs discovered than liked *)
C5_LikedFirstOfMore ==
    /\ pc = "return" /\ outcome = "success" /\ i = 0
    /\ loaded.liked = {} /\ loaded.dayCount = 0
    /\ Cardinality(processedUrls) = likedCount
    /\ likedCount > 0
    /\ Len(tweetUrls) > likedCount

(* C6: an attempt of likeTweetById that finds the unlike marker returns
   {ok, already} without a click, and processUrl, taking an already result,
   increments neither processed.dayCount nor likedCount. *)
C6_AlreadyIsIdempotent ==
    [][/\ (pc = "attempt" /\ target' = "unlike") => (result' = "already" /\ clicks' = clicks)
       /\ (pc = "handle" /\ result = "already") =>
             (processed'.dayCount = processed.dayCount /\ likedCount' = likedCount)]_vars

(* an already result has been taken: the ledger gained an id without a count *)
C6_AlreadyTaken ==
    /\ pc = "save"
    /\ clicks = 0
    /\ processed.liked # loaded.liked
    /\ processed.dayCount = loaded.dayCount
    /\ likedCount = 0

(* C7: after a successful non-already action, saveProcessed has been called with the
   in-memory ledger as it is (new id, incremented dayCount) before likeTweetById, a
   collectTweetIds pass or a navigation starts again. *)
C7_SavedBeforeNextStep ==
    (pc # "save" /\ processed.dayCount > loaded.dayCount) => lastSave = processed

(* the next likeTweetById starts after a like of this run *)
C7_NextLikeAfterSave ==
    /\ pc = "like"
    /\ processed.dayCount > loaded.dayCount
    /\ lastSave = processed

(* C8, as claimed: no Target is started (navigated to) once processed.dayCount has
   reached DAILY_CAP, also when the loaded ledger is already at the cap. *)
C8_NoTargetAtCap == pc \in {"goto", "fallback"} => processed.dayCount < config.DAILY_CAP

(* C8, amended: no Target after the first is started once processed.dayCount has
   reached DAILY_CAP: the cap is checked after each Target, not before the first, so
   a run whose loaded ledger is at the cap still navigates to its first Target. *)
C8_NoFurtherTargetAtCap ==
    (pc \in {"goto", "fallback"} /\ i > 0) => processed.dayCount < config.DAILY_CAP

(* the cap is reached by a like on the first Target: main leaves the loop although
   further rows may follow *)
C8_StoppedAtCap ==
    /\ pc = "finally"
    /\ i + 1 < MaxRows
    /\ clicks > 0
    /\ processed.dayCount = config.DAILY_CAP

(* C9, as claimed: a pass stops as soon as three consecutive scroll steps have left
   the page height unchanged, so no pass sees a fourth such step in a row. *)
C9_StopsAfterThreeStillSteps == pc = "collect" => stillSteps <= 3

(* C9, amended: a pass stops as soon as three consecutive measurements of the page
   height equal the measurement before them, the first measurement of a pass being
   compared with 0: a page that never grows is scrolled four times, and no pass
   sees a fifth unchanged step in a row; the collected sequence is duplicate-free
   and holds at most MAX_SCAN URLs. *)
C9_ScanStops ==
    pc = "collect" =>
        /\ NoDup(collected)
        /\ Len(collected) <= config.MAX_SCAN
        /\ noChangeCount <= 3
        /\ stillSteps <= noChangeCount + 1

(* a pass has stopped on the unchanged height with fewer URLs than the ceiling *)
C9_StoppedBelowCeiling ==
    /\ pc = "collect"
    /\ noChangeCount = 3
    /\ collected # <<>>
    /\ Len(collected) < config.MAX_SCAN

(* C10, as claimed: for every target URL whose primary attempts all fail, the URL of
   the alternate domain with the same path is attempted exactly once, after them,
   before robustGoto fails or succeeds. *)
C10_AlternateAlwaysTried ==
    LET alternate == <<IF url[1] = "x.com" THEN "twitter.com" ELSE "x.com", url[2]>>
    IN
    /\ (pc = "return" /\ navLog # <<>>) => navLog = <<url, url, alternate>>
    /\ pc = "login" => navLog \in {<<url>>, <<url, url>>, <<url, url, alternate>>}

(* C10, amended: for a target URL that contains x.com, after both primary attempts
   failed the URL with every x.com replaced by twitter.com is attempted exactly once;
   robustGoto succeeds if that attempt does and throws if it fails; for a URL without
   x.com no alternate is attempted and robustGoto throws after the second attempt. *)
C10_FallbackOnce ==
    LET hasX == url[1] = "x.com" \/ url[2] = "x.com"
        replaced == <<IF url[1] = "x.com" THEN "twitter.com" ELSE url[1],
                      IF url[2] = "x.com" THEN "twitter.com" ELSE url[2]>>
    IN  /\ (pc = "return" /\ navLog # <<>>) =>
              /\ outcome = "failure"
              /\ navLog = IF hasX THEN <<url, url, replaced>> ELSE <<url, url>>
        /\ pc = "fallback" => hasX /\ navLog = <<url, url>>
        /\ pc = "login" =>
              \/ navLog \in {<<url>>, <<url, url>>}
              \/ hasX /\ navLog = <<url, url, replaced>>

(* the fallback navigation succeeded for a URL with x.com in host and path *)
C10_FallbackSucceeded ==
    /\ pc = "login"
    /\ Len(navLog) = 3
    /\ url = <<"x.com", "x.com">>

(* C11: when the login check of a loaded Target finds the login page, processUrl
   returns a failure at once: no collectTweetIds pass has run or runs, likeTweetById
   is not invoked, and the ledger is neither changed nor saved. *)
C11_LoginAbortsTarget ==
    [][detected' = "login" =>
          /\ pc = "login" /\ pc' = "return" /\ outcome' = "failure"
          /\ collected' = <<>> /\ tweetUrls' = <<>> /\ processedUrls' = {}
          /\ statusUrl' = <<>> /\ clicks' = clicks
          /\ processed' = processed /\ lastSave' = lastSave /\ disk' = disk]_vars

(* a later Target is aborted on the login page after the run has saved a like *)
C11_AbortedOnLogin ==
    /\ pc = "return"
    /\ detected = "login"
    /\ outcome = "failure"
    /\ lastSave # NoSave

(* C12: a rate limit found after the load leads to the reload step, which is entered
   from the first check only and never repeats; after the reload the check runs
   once more: still limited, processUrl returns a failure without a collectTweetIds
   pass or a likeTweetById call; no longer limited, the first collectTweetIds pass
   starts. *)
C12_OneReloadThenDecide ==
    [][/\ (pc = "ratelimit" /\ detected' = "limited") => pc' = "reload"
       /\ pc' = "reload" => pc = "ratelimit"
       /\ pc = "reload" =>
             \/ /\ detected' = "limited" /\ pc' = "return" /\ outcome' = "failure"
                /\ collected' = <<>> /\ tweetUrls' = <<>> /\ processedUrls' = {}
                /\ statusUrl' = <<>> /\ clicks' = clicks /\ processed' = processed
             \/ /\ detected' = "none" /\ pc' = "collect"
                /\ firstScan' /\ collected' = <<>> /\ tweetUrls' = <<>>]_vars

(* the Target is abandoned: the page was still rate limited after the reload *)
C12_AbandonedAfterReload ==
    /\ pc = "return"
    /\ detected = "limited"
    /\ outcome = "failure"

(* C13: when likeTweetById returns ok = false or throws, processUrl leaves the ledger
   and likedCount as they are, does not call saveProcessed, adds the item to
   processedUrls and goes on with the rest of the batch. *)
C13_FailedItemIsIsolated ==
    [][(pc = "handle" /\ result \in {"not-found", "threw"}) =>
          /\ processed' = processed /\ likedCount' = likedCount
          /\ lastSave' = lastSave /\ disk' = disk
          /\ processedUrls' = processedUrls \cup {statusUrl}
          /\ pc' = "for" /\ remainingUrls' = remainingUrls /\ tweetUrls' = tweetUrls
          /\ outcome' = outcome]_vars

(* the batch goes on after a failed item: an item is in processedUrls, nothing was
   liked or saved, and items are left *)
C13_BatchGoesOnAfterFailure ==
    /\ pc = "for"
    /\ processedUrls # {}
    /\ likedCount = 0
    /\ processed = loaded
    /\ lastSave = NoSave
    /\ remainingUrls # <<>>

(* C14: whatever fails while a Target is processed (navigation, login page, rate
   limit, an exception of a scan or of likeTweetById), control stays inside processUrl
   until it returns, the run does not end there, and after a failed Target main goes
   on to the next row unless processed.dayCount has reached DAILY_CAP. *)
C14_TargetFailureIsIsolated ==
    [][LET inProcessUrl == {"goto", "fallback", "login", "ratelimit", "reload", "collect",
                            "while", "for", "afterfor", "like", "attempt", "handle", "save"}
       IN  /\ pc \in inProcessUrl => (pc' \in inProcessUrl \cup {"return"} /\ exitCode' = -1)
           /\ pc' = "return" => outcome' \in {"success", "failure"}
           /\ (pc = "return" /\ outcome = "failure") =>
                 IF processed.dayCount >= config.DAILY_CAP
                 THEN pc' = "finally"
                 ELSE pc' = "loop" /\ i' = i + 1 /\ exitCode' = -1]_vars

(* a Target that had a like ends in failure on an exception of a later scan, below
   the daily cap *)
C14_FailedAfterLike ==
    /\ pc = "return"
    /\ outcome = "failure"
    /\ detected = "none"
    /\ clicks > 0
    /\ i = 0
    /\ processed.dayCount < config.DAILY_CAP

(* C15: when the storageState file is missing, or input.csv is missing or holds no
   URL, the run never gets past reading the CSV: no browser is launched, no Target is
   processed, saveProcessed is never called, and the process ends with status 1. *)
C15_FatalPreconditions ==
    (~storageExists \/ inputFile # "urls") =>
        /\ pc \in {"start", "load", "readcsv", "exit"}
        /\ browser = "none" /\ i = 0 /\ url = <<>> /\ navLog = <<>> /\ clicks = 0
        /\ lastSave = NoSave
        /\ exitCode = IF pc = "exit" THEN 1 ELSE -1
        /\ (~storageExists /\ pc # "start") => (pc = "exit" /\ processed = ZeroLedger)

(* the run has ended with status 1 on an input file without a URL, after the load *)
C15_ExitedOnEmptyInput ==
    /\ pc = "exit"
    /\ exitCode = 1
    /\ storageExists
    /\ inputFile = "empty"
    /\ processed.dayStart = Today

(* C17: when processed.json is absent or cannot be read or parsed, loadProcessed
   returns liked = {}, dayCount = 0 and dayStart = today, and the run goes on. *)
C17_MissingLedgerLoadsEmpty ==
    (/\ storageExists /\ pc \notin {"start", "load"}
     /\ lastSave = NoSave /\ disk \in {AbsentFile, UnreadableFile}) =>
        /\ loaded = [liked |-> {}, dayCount |-> 0, dayStart |-> Today]
        /\ pc = "readcsv" => (processed = loaded /\ exitCode = -1)

(* the run navigates to a Target after loading an unreadable processed.json *)
C17_RunGoesOnWithoutLedger ==
    /\ pc = "goto"
    /\ disk = UnreadableFile
    /\ processed = [liked |-> {}, dayCount |-> 0, dayStart |-> Today]

(* C18: saveProcessed never ends anything: whether the write succeeds or fails, the
   for loop goes on with the in-memory ledger as it is; and while the file is behind
   the last saved ledger, likeTweetById is still invoked only on an id that is not in
   the in-memory ledger and below both caps. *)
C18_SaveFailureIsSwallowed ==
    [][/\ pc = "save" =>
             /\ pc' = "for" /\ exitCode' = -1
             /\ processed' = processed /\ lastSave' = processed
             /\ disk' \in {disk, processed}
             /\ likedCount' = likedCount /\ remainingUrls' = remainingUrls
             /\ processedUrls' = processedUrls /\ tweetUrls' = tweetUrls
       /\ (lastSave # NoSave /\ disk # lastSave /\ pc' = "like") =>
             /\ StatusId(statusUrl') \notin processed.liked
             /\ likedCount < config.TWEETS_TO_LIKE
             /\ processed.dayCount < config.DAILY_CAP]_vars

(* likeTweetById is invoked on the next item after a save that did not reach the file *)
C18_LikeAfterFailedSave ==
    /\ pc = "like"
    /\ lastSave = processed
    /\ disk # processed
    /\ processed.dayCount > loaded.dayCount

(* C20: with the phases of a Target numbered NAVIGATE 1, CHECK_AUTH 2,
   CHECK_RATE_LIMIT 3, SCAN 4 (the first collectTweetIds pass), ACT_LOOP 5 (the like
   loop and its further passes) and DONE 6: every step stays in its phase, moves to
   the next one, or goes to DONE; NAVIGATE is entered from main only; outside SCAN
   and ACT_LOOP nothing is collected and likeTweetById has no item, and both start
   only with the login and rate-limit checks negative. *)
C20_PhaseOrder ==
    [][LET actLoop == {"while", "for", "afterfor", "like", "attempt", "handle", "save"}
           phase(p, first) ==
               CASE p \in {"goto", "fallback"} -> 1
                 [] p = "login" -> 2
                 [] p \in {"ratelimit", "reload"} -> 3
                 [] p = "collect" /\ first -> 4
                 [] p = "collect" /\ ~first -> 5
                 [] p \in actLoop -> 5
                 [] p = "return" -> 6
                 [] OTHER -> 0
           a == phase(pc, firstScan)
           b == phase(pc', firstScan')
       IN  /\ a \in 1..5 => b \in {a, a + 1, 6}
           /\ a = 0 => b \in {0, 1}
           /\ a = 6 => b = 0
           /\ b \notin {4, 5} => (collected' = <<>> /\ statusUrl' = <<>>)
           /\ a \notin {5} => clicks' = clicks
           /\ b \in {4, 5} => detected' \notin {"login", "limited"}]_vars

(* a Target has gone through every phase: it returns success with a like *)
C20_AllPhasesDone ==
    /\ pc = "return"
    /\ outcome = "success"
    /\ likedCount > 0
    /\ i > 0

(* C16: whenever the storageState file and the input URLs are there, the run
   eventually has closed every browser it launched and has exited with status 0
   (or the model has stopped following it at the bound on tweetUrls). *)
C16_AlwaysShutsDownAndExits ==
    (storageExists /\ inputFile = "urls" /\ pc = "launch")
        ~> \/ pc = "exit" /\ exitCode = 0 /\ browser # "open"
           \/ pc = "collect" /\ ~firstScan /\ Len(Merged) > MaxUrls

(* C19: every processUrl that has started eventually returns (or the model has
   stopped following it at the bound on tweetUrls). *)
C19_EveryTargetReachesDone ==
    (pc = "goto")
        ~> \/ pc = "return"
           \/ pc = "collect" /\ ~firstScan /\ Len(Merged) > MaxUrls

(* C21: while one URL is processed, likeTweetById is called at most once for each item:
   no item occurs twice among the items dispatched for this URL, whatever the results
   were and whatever the incremental scans found again. *)
C21_DispatchedAtMostOnce == NoDup(dispatched)

(* C21 witness: the dispatch of an item failed (it is in processedUrls only, not in the
   ledger), and the incremental scan now running has found that item again. *)
C21_FailedItemFoundAgain ==
    /\ pc = "collect"
    /\ ~firstScan
    /\ dispatched # <<>>
    /\ dispatched[1] \in Range(collected)
    /\ dispatched[1] \in processedUrls
    /\ ~IsLiked(processed, dispatched[1])

(* C22: the working set of one URL, tweetUrls, as the first scan and the incremental
   scans build it, has no item twice and never more than MAX_SCAN items. *)
C22_WorkingSetWithinCeiling ==
    NoDup(tweetUrls) /\ Len(tweetUrls) <= config.MAX_SCAN

(* C23: likeTweetById returns { ok: true } without already only when the unlike marker
   showed up after the real click, and so processUrl counts a like (dayCount + 1, the id
   entered in processed.liked) only for a click whose state flip was seen. *)
C23_OkOnlyWhenConfirmed ==
    [][/\ (pc' = "handle" /\ result' = "ok") => confirmed'
       /\ (pc = "handle" /\ processed'.dayCount = processed.dayCount + 1) => confirmed]_vars

(* C24: an attempt of likeTweetById that raises is followed by another attempt on the
   same item, with a fresh query, while fewer than 2 retries were made; when the third
   attempt raises the error goes to processUrl; an attempt that completes returns its
   result at once.  No invocation makes more than 3 attempts. *)
C24_AtMostThreeAttempts ==
    [][/\ pc = "attempt" =>
            \/ /\ pc' = "attempt"
               /\ retry < 2
               /\ retry' = retry + 1
               /\ statusUrl' = statusUrl
               /\ processed' = processed
            \/ /\ pc' = "handle"
               /\ result' = "threw"
               /\ retry = 2
               /\ processed' = processed
            \/ /\ pc' = "handle"
               /\ result' \in {"ok", "already", "not-found"}
       /\ pc' = "attempt" => pc \in {"like", "attempt"} /\ retry' \in 0..2]_vars

(* C24 witness: two attempts on an item have raised and the third one is about to run. *)
C24_ThirdAttempt ==
    pc = "attempt" /\ retry = 2 /\ statusUrl # <<>>

(* C25: once a rate limit has been detected after a like and is still there after the
   backoff sleep, likeTweetById is not called again for this URL. *)
C25_NoActionUnderPersistentLimit ==
    detected = "limited-after-like" => pc \notin {"like", "attempt"}

(* C26: in one run, from the load on, processed.liked only gains entries, dayStart stays
   as it is, and dayCount goes up by exactly 1 when a like that is not "already" is
   handled, together with the likedCount of the URL, and by 0 in every other step; so
   dayCount minus its value at load is the number of such likes handled so far. *)
C26_CountFollowsLikes ==
    [][pc \notin {"start", "load"} =>
         /\ processed.liked \subseteq processed'.liked
         /\ processed'.dayStart = processed.dayStart
         /\ processed'.dayCount \in {processed.dayCount, processed.dayCount + 1}
         /\ processed'.dayCount = processed.dayCount + 1 <=> pc = "handle" /\ result = "ok"
         /\ processed'.dayCount = processed.dayCount + 1 <=> likedCount' = likedCount + 1
         /\ likedCount' \in {likedCount, likedCount + 1, 0}
         /\ loaded' = loaded
         /\ processed'.dayCount - loaded.dayCount =
                clicks' - (IF pc' = "handle" /\ result' = "ok" THEN 1 ELSE 0)]_vars

(* C26 witness: the second URL of the run is being processed, one like was counted for
   the first URL and one for this one, and dayCount stands 2 above its value at load. *)
C26_TwoLikesOverTwoUrls ==
    /\ pc = "for"
    /\ i = 1
    /\ likedCount = 1
    /\ processed.dayCount = loaded.dayCount + 2
    /\ loaded.liked \subseteq processed.liked

(* C27: over all runs of one calendar day, runs that were killed at any point and runs
   whose ledger saves failed included, the number of real like clicks is at most
   DAILY_CAP. *)
C27_DayClicksWithinCap == clicks <= config.DAILY_CAP

(* C28: whatever parseable content processed.json has, loadProcessed raises nothing and
   returns a ledger whose liked is a mapping, whose dayCount is a non-negative integer
   and whose dayStart is today, and main goes on with it. *)
C28_LoadAlwaysWellFormed ==
    loaded # ZeroLedger =>
        /\ loaded # LoadThrew
        /\ Fields \subseteq DOMAIN loaded
        /\ loaded["liked"] \subseteq Ids
        /\ loaded["dayCount"] \in Nat
        /\ loaded["dayStart"] = Today
        /\ processed = loaded

====
